---- MODULE Spec2Model ----
(***************************************************************************)
(* A model of the elf-loader crate: ElfFile (src/src/file.rs), its header  *)
(* queries, the segment loader `load` and the relocation step `relocate`.  *)
(*                                                                         *)
(* The source buffer `data` is a byte sequence laid out as an ELF64 file   *)
(* at full scale (64-byte file header, 56-byte program headers, 64-byte    *)
(* section headers, 24-byte relocation records).  Every field is decoded   *)
(* from the bytes the way the code decodes it.  The target is taken to be  *)
(* little-endian (x86_64), so the native-endian reads of the packed        *)
(* structs are little-endian reads.                                        *)
(*                                                                         *)
(* Panics (checked indexing, unwrap, division by zero, overflow checks)    *)
(* end the program: status = "panic".  Undefined behaviour (raw-pointer    *)
(* reads and writes outside a buffer) is a choice between a fault          *)
(* (status = "fault") and the access going through to the memory next to   *)
(* the buffer.                                                             *)
(***************************************************************************)
EXTENDS Integers, Naturals, Sequences, FiniteSets, TLC

\* ------------------------------------------------------------------ bounds

\* Longest of the short raw buffers is_valid is tried on.
MaxLen == 5
\* Length of each destination buffer the caller allocates.
DestLen == 32
\* Calls of load / relocate the caller makes on one destination buffer.
MaxCalls == 2
\* Width in bits the model computes usize in (the target's is 64).  Every
\* input is drawn so that no sum reaches 2^WordBits; the one wrap the code
\* can reach with these inputs, 0 - usize::MAX, is 1 at every width.
WordBits == 24

\* ------------------------------------------------------- program constants

PT_LOAD == 1
SHT_RELA == 4
SizeOfProgramHeader == 56
SizeOfSectionHeader == 64
SizeOfRelocationSection == 24

usize_MAX == 2^WordBits - 1
usize_MIN == 0

ELF_MAGIC == <<127, 69, 76, 70>>

\* ----------------------------------------------------------------- bytes

RECURSIVE to_le_bytes(_, _)
to_le_bytes(v, n) ==
    IF n = 0 THEN <<>> ELSE <<v % 256>> \o to_le_bytes(v \div 256, n - 1)

RECURSIVE from_le_bytes(_)
from_le_bytes(b) ==
    IF b = <<>> THEN 0 ELSE Head(b) + 256 * from_le_bytes(Tail(b))

Zeros(n) == [i \in 1..n |-> 0]

RECURSIVE Flatten(_)
Flatten(ss) == IF ss = <<>> THEN <<>> ELSE Head(ss) \o Flatten(Tail(ss))

\* ---------------------------------------------------- the on-disk layouts

ProgramHeaderBytes(h) ==
    to_le_bytes(h.header_type, 4) \o to_le_bytes(h.flags, 4)
    \o to_le_bytes(h.offset, 8) \o to_le_bytes(h.v_addr, 8)
    \o to_le_bytes(h.p_addr, 8) \o to_le_bytes(h.file_size, 8)
    \o to_le_bytes(h.memory_size, 8) \o to_le_bytes(h.align, 8)

SectionHeaderBytes(s) ==
    to_le_bytes(s.name_offset, 4) \o to_le_bytes(s.header_type, 4)
    \o to_le_bytes(s.flags, 8) \o to_le_bytes(s.addr, 8)
    \o to_le_bytes(s.offset, 8) \o to_le_bytes(s.size, 8)
    \o to_le_bytes(s.link, 4) \o to_le_bytes(s.info, 4)
    \o to_le_bytes(s.addr_align, 8) \o to_le_bytes(s.entry_size, 8)

RelocationSectionBytes(r) ==
    to_le_bytes(r.offset, 8) \o to_le_bytes(r.info, 8) \o to_le_bytes(r.addend, 8)

\* The 64-byte file header: the fields the code reads sit at 0 (magic),
\* 24 (entry), 32 (phoff), 40 (shoff), 54/56 (phentsize/phnum) and
\* 58/60 (shentsize/shnum).
ElfHeaderBytes(e) ==
    e.magic \o <<2, 1, 1, 0>> \o Zeros(8)
    \o to_le_bytes(3, 2) \o to_le_bytes(62, 2) \o to_le_bytes(1, 4)
    \o to_le_bytes(e.entry, 8) \o to_le_bytes(e.phoff, 8) \o to_le_bytes(e.shoff, 8)
    \o to_le_bytes(0, 4) \o to_le_bytes(64, 2)
    \o to_le_bytes(e.phentsize, 2) \o to_le_bytes(e.phnum, 2)
    \o to_le_bytes(e.shentsize, 2) \o to_le_bytes(e.shnum, 2)
    \o to_le_bytes(0, 2)

Ph(t, off, va, fsz, msz) ==
    [header_type |-> t, flags |-> 5, offset |-> off, v_addr |-> va, p_addr |-> va,
     file_size |-> fsz, memory_size |-> msz, align |-> 8]

Rela(off, add) == [offset |-> off, info |-> 8, addend |-> add]

\* The program-header side of an input file: the records written at offset
\* 64 and what the file header says of the table (a negative phoff counts
\* from the end of the file).
PhCases ==
    { [phs |-> <<>>, phoff |-> 64, phentsize |-> 56, phnum |-> 0],
      [phs |-> <<Ph(PT_LOAD, 0, 8, 4, 8)>>, phoff |-> 64, phentsize |-> 56, phnum |-> 1],
      [phs |-> <<Ph(PT_LOAD, 0, 8, 8, 8)>>, phoff |-> 64, phentsize |-> 56, phnum |-> 1],
      [phs |-> <<Ph(4, 0, 0, 4, 4), Ph(PT_LOAD, 0, 8, 8, 8)>>,
       phoff |-> 64, phentsize |-> 56, phnum |-> 2],
      [phs |-> <<Ph(PT_LOAD, 0, DestLen - 4, 8, 8)>>,
       phoff |-> 64, phentsize |-> 56, phnum |-> 1],
      [phs |-> <<Ph(PT_LOAD, 0, DestLen, 4, 4)>>,
       phoff |-> 64, phentsize |-> 56, phnum |-> 1],
      [phs |-> <<Ph(PT_LOAD, 180, 8, 4, 8)>>, phoff |-> 64, phentsize |-> 56, phnum |-> 1],
      [phs |-> <<Ph(PT_LOAD, 0, 8, 8, 8)>>, phoff |-> 64, phentsize |-> 64, phnum |-> 1],
      [phs |-> <<Ph(PT_LOAD, 0, 8, 8, 8)>>, phoff |-> 64, phentsize |-> 56, phnum |-> 9],
      [phs |-> <<Ph(PT_LOAD, 0, 8, 8, 8)>>, phoff |-> -8, phentsize |-> 0, phnum |-> 1] }

\* The section side: one section header, and the relocation records its
\* offset points at; cut is the number of bytes missing from the end of the
\* file (a truncated file).
SecCases ==
    { [sec_type |-> SHT_RELA, entry_size |-> 24, relas |-> <<>>, cut |-> 0],
      [sec_type |-> SHT_RELA, entry_size |-> 24, relas |-> <<Rela(16, 32)>>, cut |-> 0],
      [sec_type |-> 1, entry_size |-> 24, relas |-> <<Rela(16, 32)>>, cut |-> 0],
      [sec_type |-> SHT_RELA, entry_size |-> 0, relas |-> <<Rela(16, 32)>>, cut |-> 0],
      [sec_type |-> SHT_RELA, entry_size |-> 24, relas |-> <<Rela(DestLen - 4, 32)>>,
       cut |-> 0],
      [sec_type |-> SHT_RELA, entry_size |-> 12, relas |-> <<Rela(16, 32)>>, cut |-> 0],
      [sec_type |-> SHT_RELA, entry_size |-> 24, relas |-> <<Rela(16, 32), Rela(8, 40)>>,
       cut |-> 0],
      [sec_type |-> SHT_RELA, entry_size |-> 24, relas |-> <<Rela(16, 32)>>, cut |-> 24] }

Image(p, s) ==
    LET phtab == Flatten([k \in 1..Len(p.phs) |-> ProgramHeaderBytes(p.phs[k])])
        shoff == 64 + Len(phtab)
        reloff == shoff + SizeOfSectionHeader
        reltab == Flatten([k \in 1..Len(s.relas) |-> RelocationSectionBytes(s.relas[k])])
        total == reloff + Len(reltab) - s.cut
        sh == [name_offset |-> 1, header_type |-> s.sec_type, flags |-> 2, addr |-> 0,
               offset |-> reloff, size |-> Len(reltab), link |-> 0, info |-> 0,
               addr_align |-> 8, entry_size |-> s.entry_size]
        eh == [magic |-> ELF_MAGIC, entry |-> 8, shoff |-> shoff,
               phoff |-> IF p.phoff < 0 THEN total + p.phoff ELSE p.phoff,
               phentsize |-> p.phentsize, phnum |-> p.phnum,
               shentsize |-> SizeOfSectionHeader, shnum |-> 1]
        all == ElfHeaderBytes(eh) \o phtab \o SectionHeaderBytes(sh) \o reltab
    IN  SubSeq(all, 1, total)

Images == { Image(p, s) : p \in PhCases, s \in SecCases }

\* Files that end inside the 64-byte file header.
HeaderCuts == {0, 36, 57}

TruncatedHeaders ==
    { SubSeq(ElfHeaderBytes([magic |-> ELF_MAGIC, entry |-> 8, shoff |-> 64,
                             phoff |-> 64, phentsize |-> 56, phnum |-> 0,
                             shentsize |-> 64, shnum |-> 0]), 1, n) :
      n \in HeaderCuts }

\* Raw buffers of up to MaxLen bytes over the magic's bytes and one other.
MagicAlphabet == {127, 69, 76, 70, 0}

RawBuffers ==
    UNION { [1..n -> MagicAlphabet] : n \in 0..MaxLen }

Files == Images \cup TruncatedHeaders

Buffers == Files \cup RawBuffers

\* The destination buffers the caller owns.
Bufs == {1, 2}

\* Addresses the allocator may place a destination buffer at (8-aligned).
Addrs == {64, 128}

\* Values the 8-byte words of the memory after the source buffer may hold.
AfterWords == {0, 1}

\* What an access outside a buffer through a raw pointer may do.
UBOutcomes == {"through", "fault"}

VARIABLES
    data,       \* ElfFile.data: the source buffer
    base,       \* base[b]: the bytes of destination buffer b
    base_ptr,   \* base_ptr[b]: the address of destination buffer b
    spill,      \* spill[b]: indices >= len written through b's raw pointer
    src_oob,    \* a record was decoded from memory outside data
    status,     \* "running", or how the program ended: "panic", "fault"
    last,       \* the last call: its name, destination and what it returned
    hist        \* hist[b]: the calls made on destination b, in order

vars == <<data, base, base_ptr, spill, src_oob, status, last, hist>>

\* ------------------------------------------------------ ElfFile's queries

Slice(s, lo, hi) == SubSeq(s, lo + 1, hi)

\* A checked slice data[lo..hi] is in range.
InRange(lo, hi) == lo <= hi /\ hi <= Len(data)

\* is_valid comparing only the first three bytes of the magic.
is_valid_prefix_3 ==
    IF Len(data) < 4 THEN FALSE
    ELSE \A k \in 1..3 : ELF_MAGIC[k] = Slice(data, 0, 4)[k]

is_valid ==
    IF Len(data) < 4 THEN FALSE
    ELSE \A k \in 1..4 : ELF_MAGIC[k] = Slice(data, 0, 4)[k]

entrypoint ==
    IF ~InRange(24, 32) THEN [status |-> "panic", val |-> 0]
    ELSE [status |-> "ok", val |-> from_le_bytes(Slice(data, 24, 32))]

program_header_table ==
    IF ~(InRange(32, 40) /\ InRange(54, 56) /\ InRange(56, 58))
    THEN [status |-> "panic", ptr |-> 0, size |-> 0, num |-> 0]
    ELSE [status |-> "ok",
          ptr |-> from_le_bytes(Slice(data, 32, 40)),
          size |-> from_le_bytes(Slice(data, 54, 56)),
          num |-> from_le_bytes(Slice(data, 56, 58))]

section_header_table ==
    IF ~(InRange(40, 48) /\ InRange(58, 60) /\ InRange(60, 62))
    THEN [status |-> "panic", ptr |-> 0, size |-> 0, num |-> 0]
    ELSE [status |-> "ok",
          ptr |-> from_le_bytes(Slice(data, 40, 48)),
          size |-> from_le_bytes(Slice(data, 58, 60)),
          num |-> from_le_bytes(Slice(data, 60, 62))]

\* The byte at address data.as_ptr() + i: a byte of data, or of the memory
\* after it, whose 8-byte words hold `after`.
Mem(i, after) ==
    IF i < Len(data) THEN data[i + 1]
    ELSE to_le_bytes(after, 8)[((i - Len(data)) % 8) + 1]

Read(addr, n, after) == from_le_bytes([k \in 1..n |-> Mem(addr + k - 1, after)])

\* A #[repr(packed)] ProgramHeader read at data.as_ptr() + a.
ProgramHeaderAt(a, after) ==
    [header_type |-> Read(a, 4, after), flags |-> Read(a + 4, 4, after),
     offset |-> Read(a + 8, 8, after), v_addr |-> Read(a + 16, 8, after),
     p_addr |-> Read(a + 24, 8, after), file_size |-> Read(a + 32, 8, after),
     memory_size |-> Read(a + 40, 8, after), align |-> Read(a + 48, 8, after)]

\* A #[repr(packed)] SectionHeader read at data.as_ptr() + a.
SectionHeaderAt(a, after) ==
    [name_offset |-> Read(a, 4, after), header_type |-> Read(a + 4, 4, after),
     flags |-> Read(a + 8, 8, after), addr |-> Read(a + 16, 8, after),
     offset |-> Read(a + 24, 8, after), size |-> Read(a + 32, 8, after),
     link |-> Read(a + 40, 4, after), info |-> Read(a + 44, 4, after),
     addr_align |-> Read(a + 48, 8, after), entry_size |-> Read(a + 56, 8, after)]

\* A #[repr(packed)] RelocationSection read at data.as_ptr() + a.
RelocationSectionAt(a, after) ==
    [offset |-> Read(a, 8, after), info |-> Read(a + 8, 8, after),
     addend |-> Read(a + 16, 8, after)]

\* The record of struct T read at data.as_ptr() + a.
RecordAt(T, a, after) ==
    CASE T = "ProgramHeader" -> ProgramHeaderAt(a, after)
      [] T = "SectionHeader" -> SectionHeaderAt(a, after)
      [] T = "RelocationSection" -> RelocationSectionAt(a, after)

\* slice::from_raw_parts(data.as_ptr() + ptr, num) over records of `size`
\* bytes: the records, and whether any byte of them lies outside data.
RawParts(ptr, num, size, T, ub, after) ==
    LET oob == num > 0 /\ ptr + num * size > Len(data) IN
    IF oob /\ ub = "fault"
    THEN [status |-> "fault", recs |-> <<>>, oob |-> TRUE]
    ELSE [status |-> "ok", oob |-> oob,
          recs |-> [k \in 1..num |-> RecordAt(T, ptr + size * (k - 1), after)]]

\* The checked slice &self.data[ptr..end] of the table, then the records
\* reinterpreted from its start: num records of the struct's own size,
\* whatever entry size the file states.
HeaderTable(t, recsize, T, ub, after) ==
    IF t.status # "ok" THEN [status |-> "panic", recs |-> <<>>, oob |-> FALSE]
    ELSE LET end == t.ptr + t.num * t.size IN
         IF ~InRange(t.ptr, end) THEN [status |-> "panic", recs |-> <<>>, oob |-> FALSE]
         ELSE RawParts(t.ptr, t.num, recsize, T, ub, after)

program_headers(ub, after) ==
    HeaderTable(program_header_table, SizeOfProgramHeader, "ProgramHeader", ub, after)

section_headers(ub, after) ==
    HeaderTable(section_header_table, SizeOfSectionHeader, "SectionHeader", ub, after)


\* ------------------------------------------------------ load_segments_len

RECURSIVE SegmentsSpan(_, _, _)
SegmentsSpan(hdrs, start, end) ==
    IF hdrs = <<>> THEN [start |-> start, end |-> end]
    ELSE LET header == Head(hdrs)
             segment_end == header.v_addr + header.memory_size
         IN  SegmentsSpan(Tail(hdrs),
                          IF header.v_addr < start THEN header.v_addr ELSE start,
                          IF segment_end > end THEN segment_end ELSE end)

\* end - start: with overflow checks (a debug build) an underflow panics,
\* without them (a release build) it wraps.
load_segments_len(ub, after, overflow_checks) ==
    LET t == program_headers(ub, after) IN
    IF t.status # "ok" THEN [status |-> t.status, val |-> 0, oob |-> t.oob]
    ELSE LET s == SegmentsSpan(t.recs, usize_MAX, usize_MIN) IN
         IF s.end < s.start /\ overflow_checks
         THEN [status |-> "panic", val |-> 0, oob |-> t.oob]
         ELSE [status |-> "ok", val |-> (s.end - s.start) % 2^WordBits, oob |-> t.oob]

\* ------------------------------------------------------------------- load

\* The copy loop of one segment, from its i-th byte on: file_data[i] is a
\* checked read, *ptr an unchecked write.
RECURSIVE CopySegment(_, _, _, _)
CopySegment(st, header, i, ub) ==
    IF i >= header.memory_size THEN st
    ELSE LET fi == header.offset + i
             di == header.v_addr + i
         IN  IF fi >= Len(data) THEN [st EXCEPT !.status = "panic"]
             ELSE IF di >= Len(st.base)
             THEN IF ub = "fault" THEN [st EXCEPT !.status = "fault"]
                  ELSE CopySegment([st EXCEPT !.spill = @ \cup {di}], header, i + 1, ub)
             ELSE CopySegment([st EXCEPT !.base[di + 1] = data[fi + 1]], header, i + 1, ub)

RECURSIVE LoadHeaders(_, _, _)
LoadHeaders(st, hdrs, ub) ==
    IF hdrs = <<>> \/ st.status # "ok" THEN st
    ELSE LET header == Head(hdrs) IN
         IF header.header_type # PT_LOAD THEN LoadHeaders(st, Tail(hdrs), ub)
         ELSE IF header.v_addr >= Len(st.base) THEN [st EXCEPT !.status = "panic"]
         ELSE LoadHeaders(CopySegment(st, header, 0, ub), Tail(hdrs), ub)

load(dest, ub, after) ==
    LET t == program_headers(ub, after)
        st == [base |-> dest, spill |-> {}, oob |-> t.oob, status |-> t.status]
    IN  LoadHeaders(st, t.recs, ub)

\* --------------------------------------------------------------- relocate

\* *ptr = v through a *mut u64 at base.as_mut_ptr().add(off): one unchecked
\* 8-byte store.
StoreU64(st, off, v, ub) ==
    LET bytes == to_le_bytes(v, 8)
        n == Len(st.base)
    IN  IF off + 8 > n /\ ub = "fault" THEN [st EXCEPT !.status = "fault"]
        ELSE [st EXCEPT
                !.base = [k \in 1..n |->
                            IF off <= k - 1 /\ k - 1 < off + 8 THEN bytes[k - off]
                            ELSE @[k]],
                !.spill = @ \cup {i \in off..(off + 7) : i >= n}]

RECURSIVE RelocateEntries(_, _, _, _)
RelocateEntries(st, sections, ptr, ub) ==
    IF sections = <<>> \/ st.status # "ok" THEN st
    ELSE LET section == Head(sections) IN
         RelocateEntries(StoreU64(st, section.offset, ptr + section.addend, ub),
                         Tail(sections), ptr, ub)

RECURSIVE RelocateHeaders(_, _, _, _, _)
RelocateHeaders(st, hdrs, ptr, ub, after) ==
    IF hdrs = <<>> \/ st.status # "ok" THEN st
    ELSE LET header == Head(hdrs) IN
         IF header.header_type # SHT_RELA THEN RelocateHeaders(st, Tail(hdrs), ptr, ub, after)
         ELSE IF header.entry_size = 0 THEN [st EXCEPT !.status = "panic"]
         ELSE LET num == header.size \div header.entry_size
                  sections == RawParts(header.offset, num, SizeOfRelocationSection,
                                       "RelocationSection", ub, after)
                  read == [st EXCEPT !.oob = @ \/ sections.oob,
                                     !.status = sections.status]
              IN  RelocateHeaders(RelocateEntries(read, sections.recs, ptr, ub),
                                  Tail(hdrs), ptr, ub, after)

\* ptr is base.as_ptr(): the address of the destination buffer.
relocate(dest, ptr, ub, after) ==
    LET t == section_headers(ub, after)
        st == [base |-> dest, spill |-> {}, oob |-> t.oob, status |-> t.status]
    IN  RelocateHeaders(st, t.recs, ptr, ub, after)

\* ------------------------------------------------------------ the program

Call(op, b, ret, val, flag) ==
    [op |-> op, buf |-> b, ret |-> ret, val |-> val, flag |-> flag]

Ended(ret) == IF ret = "ok" THEN "running" ELSE ret

\* The biases a caller may want applied to the image in buffer b: none (the
\* image runs at its link address) or the address of the buffer.
LoadBiases(b) == {0, base_ptr[b]}

\* Two zeroed destination buffers of DestLen bytes that do not overlap, and
\* no call made yet.
Fresh ==
    /\ base = [b \in Bufs |-> Zeros(DestLen)]
    /\ base_ptr \in {f \in [Bufs -> Addrs] :
                        \A a, b \in Bufs : a # b =>
                            (f[a] + DestLen <= f[b] \/ f[b] + DestLen <= f[a])}
    /\ spill = [b \in Bufs |-> {}]
    /\ src_oob = FALSE
    /\ status = "running"
    /\ last = Call("read", 0, "ok", 0, FALSE)
    /\ hist = [b \in Bufs |-> <<>>]

\* ElfFile::read over a file.
Init == data \in Files /\ Fresh

\* ElfFile::read over any buffer.
InitQueries == data \in Buffers /\ Fresh

IsValid ==
    /\ status = "running"
    /\ last' = Call("is_valid", 0, "ok", 0, is_valid)
    /\ UNCHANGED <<data, base, base_ptr, spill, src_oob, status, hist>>

Entrypoint ==
    /\ status = "running"
    /\ \E r \in {entrypoint} :
       /\ last' = Call("entrypoint", 0, r.status, r.val, FALSE)
       /\ status' = Ended(r.status)
    /\ UNCHANGED <<data, base, base_ptr, spill, src_oob, hist>>

ProgramHeaderTable ==
    /\ status = "running"
    /\ \E r \in {program_header_table} :
       /\ last' = Call("program_header_table", 0, r.status, r.size, FALSE)
       /\ status' = Ended(r.status)
    /\ UNCHANGED <<data, base, base_ptr, spill, src_oob, hist>>

SectionHeaderTable ==
    /\ status = "running"
    /\ \E r \in {section_header_table} :
       /\ last' = Call("section_header_table", 0, r.status, r.size, FALSE)
       /\ status' = Ended(r.status)
    /\ UNCHANGED <<data, base, base_ptr, spill, src_oob, hist>>

ProgramHeaders ==
    /\ status = "running"
    /\ \E ub \in UBOutcomes, after \in AfterWords :
        \E r \in {program_headers(ub, after)} :
        /\ last' = Call("program_headers", 0, r.status, Len(r.recs), FALSE)
        /\ src_oob' = (src_oob \/ r.oob)
        /\ status' = Ended(r.status)
    /\ UNCHANGED <<data, base, base_ptr, spill, hist>>

SectionHeaders ==
    /\ status = "running"
    /\ \E ub \in UBOutcomes, after \in AfterWords :
        \E r \in {section_headers(ub, after)} :
        /\ last' = Call("section_headers", 0, r.status, Len(r.recs), FALSE)
        /\ src_oob' = (src_oob \/ r.oob)
        /\ status' = Ended(r.status)
    /\ UNCHANGED <<data, base, base_ptr, spill, hist>>

LoadSegmentsLen ==
    /\ status = "running"
    /\ \E ub \in UBOutcomes, after \in AfterWords, overflow_checks \in BOOLEAN :
        \E r \in {load_segments_len(ub, after, overflow_checks)} :
        /\ last' = Call("load_segments_len", 0, r.status, r.val, FALSE)
        /\ src_oob' = (src_oob \/ r.oob)
        /\ status' = Ended(r.status)
    /\ UNCHANGED <<data, base, base_ptr, spill, hist>>

Load(b) ==
    /\ status = "running"
    /\ Len(hist[b]) < MaxCalls
    /\ \E ub \in UBOutcomes, after \in AfterWords :
        \E r \in {load(base[b], ub, after)} :
        /\ base' = [base EXCEPT ![b] = r.base]
        /\ spill' = [spill EXCEPT ![b] = @ \cup r.spill]
        /\ src_oob' = (src_oob \/ r.oob)
        /\ status' = Ended(r.status)
        /\ last' = Call("load", b, r.status, 0, FALSE)
    /\ hist' = [hist EXCEPT ![b] = Append(@, "load")]
    /\ UNCHANGED <<data, base_ptr>>

\* load_bias is the bias the caller wants applied.  relocate(&self, base)
\* has no parameter to take it: the call's record keeps it, the store uses
\* base.as_ptr().
Relocate(b) ==
    /\ status = "running"
    /\ Len(hist[b]) < MaxCalls
    /\ \E ub \in UBOutcomes, after \in AfterWords, load_bias \in LoadBiases(b) :
        \E r \in {relocate(base[b], base_ptr[b], ub, after)} :
        /\ base' = [base EXCEPT ![b] = r.base]
        /\ spill' = [spill EXCEPT ![b] = @ \cup r.spill]
        /\ src_oob' = (src_oob \/ r.oob)
        /\ status' = Ended(r.status)
        /\ last' = Call("relocate", b, r.status, load_bias, FALSE)
    /\ hist' = [hist EXCEPT ![b] = Append(@, "relocate")]
    /\ UNCHANGED <<data, base_ptr>>

\* The calls that write a destination buffer.
Next ==
    \/ \E b \in Bufs : Load(b)
    \/ \E b \in Bufs : Relocate(b)

Spec == Init /\ [][Next]_vars

\* The queries: &self methods that leave every buffer as they found it.
NextQueries ==
    \/ IsValid
    \/ Entrypoint
    \/ ProgramHeaderTable
    \/ SectionHeaderTable
    \/ ProgramHeaders
    \/ SectionHeaders
    \/ LoadSegmentsLen

SpecQueries == InitQueries /\ [][NextQueries]_vars

\* ------------------------------------------------- what the claims speak of

\* The file's program header table as ELF64 lays it out: 56-byte records
\* that lie inside the file.
PhTableOK ==
    /\ Len(data) >= 64
    /\ program_header_table.size = 56
    /\ program_header_table.ptr + program_header_table.num * 56 <= Len(data)

ShTableOK ==
    /\ Len(data) >= 64
    /\ section_header_table.size = 64
    /\ section_header_table.ptr + section_header_table.num * 64 <= Len(data)

FilePhs ==
    IF PhTableOK
    THEN [k \in 1..program_header_table.num |->
            ProgramHeaderAt(program_header_table.ptr + 56 * (k - 1), 0)]
    ELSE <<>>

FileShs ==
    IF ShTableOK
    THEN [k \in 1..section_header_table.num |->
            SectionHeaderAt(section_header_table.ptr + 64 * (k - 1), 0)]
    ELSE <<>>

LoadPhs == {FilePhs[k] : k \in {j \in 1..Len(FilePhs) : FilePhs[j].header_type = 1}}

\* A LOAD header that meets load's preconditions.
SegmentFits(h) ==
    /\ h.offset + h.file_size <= Len(data)
    /\ h.v_addr + h.memory_size <= DestLen
    /\ h.file_size <= h.memory_size

RelaShs == {FileShs[k] : k \in {j \in 1..Len(FileShs) : FileShs[j].header_type = 4}}

\* A RELA section of 24-byte records that lies inside the file.
RelaOK(s) == s.entry_size = 24 /\ s.offset + s.size <= Len(data)

RelaEntries(s) ==
    {RelocationSectionAt(s.offset + 24 * (k - 1), 0) : k \in 1..(s.size \div 24)}

AllRelaOK == ShTableOK /\ \A s \in RelaShs : RelaOK(s)

AllEntries == UNION {RelaEntries(s) : s \in {x \in RelaShs : RelaOK(x)}}

SetMax(S) == CHOOSE x \in S : \A y \in S : y <= x
SetMin(S) == CHOOSE x \in S : \A y \in S : x <= y

\* ------------------------------------------------------------------ claims

\* C1: after load, for every LOAD header, destination[v_addr .. v_addr +
\* file_size) holds the file_size bytes of the source at the header's file
\* offset, and every byte of destination[v_addr + file_size .. v_addr +
\* memory_size) is zero.
C1_LoadCopiesFileSizeAndZeroFills ==
    \A b \in Bufs :
        (hist[b] = <<"load">> /\ Cardinality(LoadPhs) = 1) =>
            \A h \in {x \in LoadPhs : SegmentFits(x)} :
                /\ \A i \in 0..(h.file_size - 1) :
                       base[b][h.v_addr + i + 1] = data[h.offset + i + 1]
                /\ \A i \in h.file_size..(h.memory_size - 1) :
                       base[b][h.v_addr + i + 1] = 0

\* C2: after relocate(destination, load_bias), for every entry of every
\* RELA section, destination[offset .. offset + 8) holds the little-endian
\* bytes of load_bias + addend, load_bias being the value the caller
\* supplied; a file without a RELA section leaves the destination as it was.
C2_RelocateWritesLoadBiasPlusAddend ==
    \A b \in Bufs :
        (hist[b] = <<"relocate">> /\ last.op = "relocate" /\ last.buf = b /\ AllRelaOK) =>
            /\ \A e \in {x \in AllEntries : x.offset + 8 <= DestLen} :
                   (\A y \in AllEntries : y = e \/ y.offset + 8 <= e.offset
                                                \/ e.offset + 8 <= y.offset) =>
                       \A j \in 1..8 :
                           base[b][e.offset + j] = to_le_bytes(last.val + e.addend, 8)[j]
            /\ RelaShs = {} => base[b] = Zeros(DestLen)

\* C3: load_segments_len returns max(v_addr + memory_size) - min(v_addr)
\* over the LOAD headers alone, and its subtraction never underflows, for
\* every program header table.
C3_RequiredSizeOverLoadHeadersOnly ==
    (last.op = "load_segments_len" /\ PhTableOK) =>
        /\ last.ret = "ok"
        /\ LoadPhs # {} =>
               last.val = SetMax({h.v_addr + h.memory_size : h \in LoadPhs})
                          - SetMin({h.v_addr : h \in LoadPhs})

\* C4: is_valid returns true if and only if the buffer has at least 4 bytes
\* and they are 0x7F, 0x45, 0x4C, 0x46, whatever follows.
C4_IsValidIffMagic ==
    last.op = "is_valid" =>
        /\ last.ret = "ok"
        /\ last.flag <=> /\ Len(data) >= 4
                         /\ data[1] = 127 /\ data[2] = 69
                         /\ data[3] = 76 /\ data[4] = 70

\* C4's case: is_valid has answered true on a buffer in which a byte that
\* is not the magic's follows the magic.
C4_Witness ==
    /\ last.op = "is_valid"
    /\ last.flag
    /\ Len(data) > 4
    /\ data[5] # 127

\* C5: load reports OutOfBounds when a LOAD header has file_offset +
\* file_size > source length or v_addr + memory_size > destination length,
\* and never reads the source or writes the destination outside its length.
C5_LoadChecksBounds ==
    \A b \in Bufs :
        (hist[b] = <<"load">> /\ last.op = "load" /\ last.buf = b /\ PhTableOK) =>
            /\ spill[b] = {}
            /\ ~src_oob
            /\ (\E h \in LoadPhs : h.offset + h.file_size > Len(data)
                                   \/ h.v_addr + h.memory_size > DestLen)
                   => last.ret = "OutOfBounds"

\* C6: relocate writes an entry's 8 bytes only when offset + 8 <= destination
\* length and reports OutOfBounds otherwise: no index >= destination length
\* is ever written by relocate.
C6_RelocateChecksBounds ==
    \A b \in Bufs :
        (hist[b] = <<"relocate">> /\ last.op = "relocate" /\ last.buf = b /\ AllRelaOK) =>
            /\ spill[b] = {}
            /\ (\E e \in AllEntries : e.offset + 8 > DestLen) => last.ret = "OutOfBounds"

\* C7: the header-table accessors succeed only when the entry size is the
\* record size (56, 64) and offset + count * entry_size <= buffer length,
\* fail with TruncatedTable otherwise, and decode no record from outside
\* the buffer.
C7_TablesValidated ==
    Len(data) >= 64 =>
        /\ last.op \in {"program_header_table", "program_headers"} =>
               last.ret = IF PhTableOK THEN "ok" ELSE "TruncatedTable"
        /\ last.op \in {"section_header_table", "section_headers"} =>
               last.ret = IF ShTableOK THEN "ok" ELSE "TruncatedTable"
        /\ ~src_oob

\* C8: relocate reports UnsupportedRelocationType when a RELA section's
\* entry_size is not 24, 0 included.
C8_RelocateValidatesEntrySize ==
    (last.op = "relocate" /\ ShTableOK) =>
        ((\E s \in RelaShs : s.entry_size # 24) =>
            last.ret = "UnsupportedRelocationType")

\* C9: load then relocate from the same source on two zeroed destination
\* buffers of equal length leaves the two byte-identical (stated of the
\* runs that stay inside both buffers and the file and end normally).
C9_SameSourceSameBytes ==
    \A a, b \in Bufs :
        (hist[a] = <<"load", "relocate">> /\ hist[b] = <<"load", "relocate">>
         /\ status = "running" /\ ~src_oob /\ spill[a] = {} /\ spill[b] = {}) =>
            base[a] = base[b]

\* C10: a relocate call on a destination that no load came before performs
\* no write (stated of the files whose RELA sections lie inside them).
C10_RelocateOnlyAfterLoad ==
    \A b \in Bufs :
        (hist[b] = <<"relocate">> /\ AllRelaOK) =>
            base[b] = Zeros(DestLen) /\ spill[b] = {}
====
